---------------------------- MODULE Spec2Model ----------------------------
(***************************************************************************)
(* LDA optimal topic number calculator (optimal_topic_calculator.py).     *)
(*                                                                         *)
(* The script is a linear pipeline                                         *)
(*     calculate_optimal_topics -> analyze_topic_distribution              *)
(*         -> recommend_optimal_range -> report                            *)
(* run by main() for one document count.  The model runs main() step by    *)
(* step for a document count drawn from NumDocs (main() itself fixes       *)
(* 103576, which is a member).                                             *)
(*                                                                         *)
(* Numbers.  Python floats are modelled exactly, by integers:              *)
(*   - a docs_per_topic value stored after round(x, 1) is kept as the      *)
(*     integer number of tenths k; the float it stands for is the double   *)
(*     nearest to k/10;                                                    *)
(*   - the unrounded quotient num_documents / topics is compared with its  *)
(*     thresholds by cross multiplication;                                 *)
(*   - the sort key abs(docs_per_topic - 400) is kept as the pair          *)
(*     <<|k - 4000|, dev>>, where dev is the distance of the computed      *)
(*     double from |k - 4000| / 10 in units of 2^-45 / 5;                  *)
(*   - math.log10, math.log and ** 0.3 are tabulated by their thresholds.  *)
(***************************************************************************)
EXTENDS Integers, Sequences, FiniteSets

VARIABLES
    num_documents,         \* main: num_documents
    pc,                    \* position of main()
    topic_results,         \* main: topic_results, a dict in insertion order
    analysis,              \* main: analysis, a dict in insertion order
    recommendations,       \* main: recommendations
    listing,               \* the entries printed by the recommendation section
    branch,                \* which branch of "if recommendations:" printed them
    final_recommendation,  \* main: final_recommendation
    error                  \* the exception that ended main(), if any

vars == <<num_documents, pc, topic_results, analysis, recommendations,
          listing, branch, final_recommendation, error>>

-----------------------------------------------------------------------------
(* Bounds of the model: the document counts main() is run for.             *)

\* Every document count from 1 to MaxDense is explored.
MaxDense == 2000

\* Above that, the multiples of Stride up to Stride * MaxStrideSteps.
Stride == 211

MaxStrideSteps == 2000

\* 1 .. MaxDense, with the multiples of Stride.
SampledDocs == (1..MaxDense) \cup {Stride * i : i \in 1..MaxStrideSteps}

\* Document counts at which some formula or comparison changes value.
ScenarioDocs ==
    { 1024, 1025, 8667, 9999, 10000, 10001, 39799, 39800, 59049, 59050,
      60803, 99999, 100000, 100001, 103576, 300749, 300750, 301000, 301015,
      301016 }

\* The tables below hold every threshold up to this document count.
TableLimit == 1000000

NumDocs == {n \in SampledDocs \cup ScenarioDocs : n <= TableLimit}

-----------------------------------------------------------------------------
(* Arithmetic of the formulas.                                             *)

\* Number of entries of a non-decreasing table that are <= n.
CountUpTo(table, n) == Cardinality({j \in 1..Len(table) : table[j] <= n})

\* Log10TenthsTable[j] is the least n with int(math.log10(n) * 10) >= j.
Log10TenthsTable ==
    << 2, 2, 2, 3, 4, 4, 6, 7, 8, 10, 13, 16, 20, 26, 32, 40, 51, 64, 80, 100,
       126, 159, 200, 252, 317, 399, 502, 631, 795, 1000, 1259, 1585, 1996,
       2512, 3163, 3982, 5012, 6310, 7944, 10000, 12590, 15849, 19953, 25119,
       31623, 39811, 50119, 63096, 79433, 100000, 125893, 158490, 199527,
       251189, 316228, 398108, 501188, 630958, 794329, 1000000 >>

\* LnTenthsTable[j] is the least n with int(10 * math.log(n)) >= j.
LnTenthsTable ==
    << 2, 2, 2, 2, 2, 2, 3, 3, 3, 3, 4, 4, 4, 5, 5, 5, 6, 7, 7, 8, 9, 10, 10,
       12, 13, 14, 15, 17, 19, 21, 23, 25, 28, 30, 34, 37, 41, 45, 50, 55, 61,
       67, 74, 82, 91, 100, 110, 122, 135, 149, 165, 182, 201, 222, 245, 271,
       299, 331, 366, 404, 446, 493, 545, 602, 666, 736, 813, 898, 993, 1097,
       1212, 1340, 1481, 1636, 1809, 1999, 2209, 2441, 2698, 2981, 3295, 3641,
       4024, 4448, 4915, 5432, 6003, 6635, 7332, 8104, 8956, 9898, 10939,
       12089, 13360, 14765, 16318, 18034, 19931, 22027, 24344, 26904, 29733,
       32860, 36316, 40135, 44356, 49021, 54177, 59875, 66172, 73131, 80822,
       89322, 98716, 109098, 120572, 133253, 147267, 162755, 179872, 198790,
       219696, 242802, 268338, 296559, 327748, 362218, 400313, 442414, 488943,
       540365, 597196, 660004, 729417, 806130, 890912, 984610 >>

\* PowerTable[j] is the least n with int(n ** 0.3) >= j, as the float power
\* computes it: 1024 ** 0.3 and 59049 ** 0.3 fall just below 8 and 27, so the
\* entries 8 and 27 are 1025 and 59050.
PowerTable ==
    << 1, 11, 39, 102, 214, 393, 657, 1025, 1517, 2155, 2961, 3957, 5166, 6614,
       8324, 10322, 12633, 15285, 18303, 21716, 25551, 29837, 34602, 39876,
       45688, 52069, 59050, 66660, 74931, 83896, 93585, 104032, 115270, 127330,
       140247, 154055, 168788, 184479, 201164, 218877, 237655, 257532, 278545,
       300730, 324122, 348760, 374680, 401919, 430514, 460504, 491927, 524821,
       559225, 595177, 632717, 671883, 712716, 755255, 799540, 845612, 893511,
       943277, 994952 >>

\* int(math.sqrt(n) * num / den): the largest r with (r * den)^2 <= n * num^2.
\* (math.sqrt is exact to the last bit and the scale factors 0.5 and 1.5 are
\* exact, so the truncation sees the real value's integer part.)
FloorScaledSqrt(n, num, den) ==
    CHOOSE r \in 0..(n * num) :
        /\ (r * den) * (r * den) <= n * num * num
        /\ ((r + 1) * den) * ((r + 1) * den) > n * num * num

\* int(math.log10(n) * 10)
FloorLog10Tenths(n) == CountUpTo(Log10TenthsTable, n)

\* int(k * math.log(n)) for k in {1, 5, 10}: the integer part of
\* int(10 * math.log(n)) / (10 / k).
FloorLnTimes(k, n) == CountUpTo(LnTenthsTable, n) \div (10 \div k)

\* int(n ** 0.3)
FloorPower(n) == CountUpTo(PowerTable, n)

\* A faulty variant of IntDiv: round() in place of int().
IntDivRounding(n, d) == (2 * n + d) \div (2 * d)

\* int(n / d) for a positive int n and a divisor d: the float quotient of two
\* small integers truncates to the integer quotient.
IntDiv(n, d) == n \div d

Min(a, b) == IF a <= b THEN a ELSE b

Max(a, b) == IF a >= b THEN a ELSE b

Entry(m, t) == [method |-> m, topics |-> t]

\* Faulty variants of LargeCorpus: a strict comparison; a threshold of 1M.
LargeCorpusStrict(n) == n > 100000

LargeCorpusMillion(n) == n >= 1000000

\* The guard of the "large corpus" formulas.

LargeCorpus(n) == n >= 100000

\* A faulty variant of Balanced: the clamp's upper limit is 465.
BalancedCappedAt465(n) == Min(465, Max(50, FloorScaledSqrt(n, 3, 2)))

\* int(math.sqrt(n) * 1.5) clamped to 50 .. 500.

Balanced(n) == Min(500, Max(50, FloorScaledSqrt(n, 3, 2)))

\* calculate_optimal_topics(num_documents): the dict `results`, as the
\* sequence of its items in insertion order.
calculate_optimal_topics(n) ==
    << Entry("sqrt_rule", FloorScaledSqrt(n, 1, 1)),
       Entry("log_rule", FloorLog10Tenths(n)),
       Entry("ratio_50", IntDiv(n, 50)),
       Entry("ratio_100", IntDiv(n, 100)),
       Entry("ratio_200", IntDiv(n, 200)),
       Entry("ratio_500", IntDiv(n, 500)),
       Entry("ln_rule", FloorLnTimes(1, n)),
       Entry("power_rule", FloorPower(n)),
       Entry("griffiths_k1", FloorLnTimes(1, n)),
       Entry("griffiths_k5", FloorLnTimes(5, n)),
       Entry("griffiths_k10", FloorLnTimes(10, n)),
       Entry("blei_conservative", Min(100, FloorScaledSqrt(n, 1, 2))) >>
    \o (IF LargeCorpus(n)
        THEN << Entry("large_corpus_low", IntDiv(n, 1000)),
                Entry("large_corpus_mid", IntDiv(n, 750)),
                Entry("large_corpus_high", IntDiv(n, 500)) >>
        ELSE << >>)
    \o << Entry("balanced", Balanced(n)) >>

\* The keys of a dict.
Keys(d) == {d[i].method : i \in 1..Len(d)}

\* d[key] for a key the dict holds.
Item(d, key) == d[CHOOSE i \in 1..Len(d) : d[i].method = key]

\* Position of a key in the dict's insertion order.
Position(d, key) == CHOOSE i \in 1..Len(d) : d[i].method = key

-----------------------------------------------------------------------------
(* Float arithmetic of the analyzer and of the sort key.                   *)

\* 2^n mod 5, n >= 0.
Pow2Mod5(n) == << 1, 2, 4, 3 >>[(n % 4) + 1]

\* floor(log2(a / b)) for integers a, b >= 1: the binary exponent of the
\* double a / b.
FloorLog2(a, b) ==
    IF a >= b
    THEN CHOOSE e \in 0..30 : b * 2^e <= a /\ a < b * 2^(e + 1)
    ELSE -(CHOOSE e \in 1..30 : b <= a * 2^e /\ a * 2^(e - 1) < b)

\* Whether the double n / t lies above the decimal tie m / 20 it stands for
\* (m = 20 * n / t odd, not a multiple of 5, so m / 20 is no double): the
\* 53-bit significand of m / 20 is m * 2^(50 - e) / 5 and rounds up iff the
\* remainder of that division is 3 or 4.
DoubleAboveTie(n, t, m) ==
    ((m % 5) * Pow2Mod5(50 - FloorLog2(n, t))) % 5 >= 3

\* round(n / t, 1), in tenths.  Python rounds the double n / t correctly:
\* away from a decimal tie x.x5 on the side the double lies, and half to even
\* where the tie is itself a double (x.25, x.75).
Round1(n, t) ==
    LET q == (10 * n) \div t
        r == (10 * n) % t
        m == 2 * q + 1
    IN  IF 2 * r < t THEN q
        ELSE IF 2 * r > t THEN q + 1
        ELSE IF m % 5 = 0 THEN (IF q % 2 = 0 THEN q ELSE q + 1)
        ELSE IF DoubleAboveTie(n, t, m) THEN q + 1 ELSE q

\* The nearest multiple of 2^-g to d / 10 (5 does not divide d), as its
\* distance from d / 10 in units of 2^-45 / 5; g <= 45.
NearestDev(d, g) ==
    LET rem == ((d % 5) * Pow2Mod5(g - 1)) % 5
    IN  (IF rem <= 2 THEN -rem ELSE 5 - rem) * 2^(45 - g)

\* d / 10 rounded to the nearest multiple of 2^-g1 and then, half to even, to
\* the nearest multiple of 2^-g2 (g1 >= g2, g2 <= 45): distance from d / 10
\* in units of 2^-45 / 5.
TwiceRoundedDev(d, g1, g2) ==
    LET j == g1 - g2
        f == ((d % 5) * Pow2Mod5(g2 - 1)) % 5
        q == (f * 2^j) \div 5
        r == (f * 2^j) % 5
        t == IF r <= 2 THEN q ELSE q + 1
        up == IF 2 * t < 2^j THEN FALSE
              ELSE IF 2 * t > 2^j THEN TRUE
              ELSE f % 2 = 1
    IN  (IF up THEN 5 - f ELSE -f) * 2^(45 - g2)

\* abs(x - 400) for the stored double x of k tenths, as <<d, dev>>: the
\* computed double is d / 10 + dev * 2^-45 / 5, d = |k - 4000|.
\*   x >= 200: the subtraction is exact, and the result is the multiple of
\*             ulp(x) nearest to d / 10;
\*   x <  200: 400 - x is rounded again, to the ulp of the result (2^-44 from
\*             256 up, 2^-45 below).
SortKey(k) ==
    LET d == IF k >= 4000 THEN k - 4000 ELSE 4000 - k
    IN  IF d % 5 = 0 THEN << d, 0 >>
        ELSE IF k >= 2000 THEN << d, NearestDev(d, 52 - FloorLog2(k, 10)) >>
        ELSE << d, TwiceRoundedDev(d, 52 - FloorLog2(k, 10),
                                   IF d >= 2560 THEN 44 ELSE 45) >>

\* key1 < key2 and key1 <= key2 on sort keys, as floats compare.
KeyLess(a, b) == a[1] < b[1] \/ (a[1] = b[1] /\ a[2] < b[2])

KeyLeq(a, b) == ~KeyLess(b, a)

-----------------------------------------------------------------------------
(* analyze_topic_distribution                                              *)

Interpretability(topics) ==
    IF topics <= 100 THEN "High" ELSE IF topics <= 300 THEN "Medium" ELSE "Low"

\* A faulty variant of Granularity: the label is taken from the rounded value.
GranularityOfRounded(n, topics) ==
    IF Round1(n, topics) <= 2000 THEN "High"
    ELSE IF Round1(n, topics) <= 5000 THEN "Medium" ELSE "Low"

\* The label is taken from the local docs_per_topic = n / topics, before it
\* is rounded: n / topics <= 200 iff n <= 200 * topics (the double n / topics
\* cannot round across an integer it does not equal).
Granularity(n, topics) ==
    IF n <= 200 * topics THEN "High"
    ELSE IF n <= 500 * topics THEN "Medium" ELSE "Low"

\* The stats dict of one method; docs_per_topic in tenths.  The field
\* topics_per_1k_docs is read by no later step and is left out.
Stats(n, e) ==
    [ method           |-> e.method,
      topics           |-> e.topics,
      docs_per_topic   |-> Round1(n, e.topics),
      interpretability |-> Interpretability(e.topics),
      granularity      |-> Granularity(n, e.topics) ]

\* num_documents / topics raises ZeroDivisionError for some item.
DividesByZero(topic_counts) ==
    \E i \in 1..Len(topic_counts) : topic_counts[i].topics = 0

\* analyze_topic_distribution(num_documents, topic_counts), when no division
\* fails: the dict `analysis` in insertion order.
analyze_topic_distribution(n, topic_counts) ==
    [i \in 1..Len(topic_counts) |-> Stats(n, topic_counts[i])]

-----------------------------------------------------------------------------
(* recommend_optimal_range and the sorts                                   *)

\* The filter of recommend_optimal_range on one stats dict.
\* A faulty variant first: the topic window is taken as 50 .. 500.
GoodCandidateWide(stats) ==
    /\ 50 <= stats.topics /\ stats.topics <= 500
    /\ 2000 <= stats.docs_per_topic /\ stats.docs_per_topic <= 10000

GoodCandidate(stats) ==
    /\ 50 <= stats.topics /\ stats.topics <= 400
    /\ 2000 <= stats.docs_per_topic /\ stats.docs_per_topic <= 10000

\* A faulty variant of InsertByKey: x goes before the items of equal key.
InsertBeforeEqual(sorted, x) ==
    LET before == {i \in 1..Len(sorted) :
                      KeyLess(SortKey(sorted[i].docs_per_topic),
                              SortKey(x.docs_per_topic))}
        n == Cardinality(before)
    IN  SubSeq(sorted, 1, n) \o << x >> \o SubSeq(sorted, n + 1, Len(sorted))

\* x placed into a sorted list after every item whose key is <= x's key.
InsertByKey(sorted, x) ==
    LET before == {i \in 1..Len(sorted) :
                      KeyLeq(SortKey(sorted[i].docs_per_topic),
                             SortKey(x.docs_per_topic))}
        n == Cardinality(before)
    IN  SubSeq(sorted, 1, n) \o << x >> \o SubSeq(sorted, n + 1, Len(sorted))

\* list.sort / sorted with key abs(docs_per_topic - 400): a stable sort, so
\* the result is the one built by inserting the items in their order.
RECURSIVE SortByDistance(_)
SortByDistance(items) ==
    IF items = << >> THEN << >>
    ELSE InsertByKey(SortByDistance(SubSeq(items, 1, Len(items) - 1)),
                     items[Len(items)])

\* The tuple (method, topics, docs_per_topic) appended to good_candidates.
Candidate(stats) ==
    [ method         |-> stats.method,
      topics         |-> stats.topics,
      docs_per_topic |-> stats.docs_per_topic ]

\* recommend_optimal_range(results, analysis)
recommend_optimal_range(an) ==
    LET good == SelectSeq(an, GoodCandidate)
    IN  SortByDistance([i \in 1..Len(good) |-> Candidate(good[i])])

\* seq[:n]
Prefix(seq, n) == SubSeq(seq, 1, Min(n, Len(seq)))

-----------------------------------------------------------------------------
(* main()                                                                  *)

\* A faulty variant of FallbackListing: the first three items, unsorted.
FallbackListingUnsorted(an) ==
    LET top == Prefix(an, 3)
    IN  [i \in 1..Len(top) |-> Candidate(top[i])]

\* The "else" branch of the recommendation section: the whole analysis
\* sorted by the same key, first three.
FallbackListing(an) ==
    LET sorted_methods == SortByDistance(an)
        top == Prefix(sorted_methods, 3)
    IN  [i \in 1..Len(top) |-> Candidate(top[i])]

\* The names main() looks up in topic_results for the literature section.
LiteratureKeys == {"griffiths_k10", "blei_conservative", "large_corpus_mid"}

\* A faulty variant of FinalChoice: the fallback keeps ratio_100 uncapped.
FinalChoiceUncapped(recs, results) ==
    IF recs # << >> THEN recs[1].topics
    ELSE Item(results, "ratio_100").topics

\* The value main() assigns to final_recommendation.
FinalChoice(recs, results) ==
    IF recs # << >> THEN recs[1].topics
    ELSE IF Item(results, "ratio_100").topics > 400
         THEN Min(300, Item(results, "balanced").topics)
         ELSE Item(results, "ratio_100").topics

Init ==
    /\ num_documents \in NumDocs
    /\ pc = "start"
    /\ topic_results = << >>
    /\ analysis = << >>
    /\ recommendations = << >>
    /\ listing = << >>
    /\ branch = "none"
    /\ final_recommendation = 0
    /\ error = "none"

\* topic_results = calculate_optimal_topics(num_documents)
Calculate ==
    /\ pc = "start"
    /\ topic_results' = calculate_optimal_topics(num_documents)
    /\ pc' = "calculated"
    /\ UNCHANGED <<num_documents, analysis, recommendations, listing, branch,
                   final_recommendation, error>>

\* analysis = analyze_topic_distribution(num_documents, topic_results)
Analyze ==
    /\ pc = "calculated"
    /\ IF DividesByZero(topic_results)
       THEN /\ error' = "ZeroDivisionError"
            /\ pc' = "failed"
            /\ UNCHANGED analysis
       ELSE /\ analysis' = analyze_topic_distribution(num_documents,
                                                      topic_results)
            /\ pc' = "analyzed"
            /\ UNCHANGED error
    /\ UNCHANGED <<num_documents, topic_results, recommendations, listing,
                   branch, final_recommendation>>

\* recommendations = recommend_optimal_range(topic_results, analysis)
Recommend ==
    /\ pc = "analyzed"
    /\ recommendations' = recommend_optimal_range(analysis)
    /\ pc' = "recommended"
    /\ UNCHANGED <<num_documents, topic_results, analysis, listing, branch,
                   final_recommendation, error>>

\* The recommendation section: the first five candidates, or the fallback.
PrintRecommendations ==
    /\ pc = "recommended"
    /\ IF recommendations # << >>
       THEN /\ listing' = Prefix(recommendations, 5)
            /\ branch' = "best"
       ELSE /\ listing' = FallbackListing(analysis)
            /\ branch' = "fallback"
    /\ pc' = "listed"
    /\ UNCHANGED <<num_documents, topic_results, analysis, recommendations,
                   final_recommendation, error>>

\* The literature section: three lookups in topic_results.
PrintLiterature ==
    /\ pc = "listed"
    /\ IF LiteratureKeys \subseteq Keys(topic_results)
       THEN /\ pc' = "compared"
            /\ UNCHANGED error
       ELSE /\ error' = "KeyError"
            /\ pc' = "failed"
    /\ UNCHANGED <<num_documents, topic_results, analysis, recommendations,
                   listing, branch, final_recommendation>>

\* The final section: final_recommendation is chosen.
ChooseFinal ==
    /\ pc = "compared"
    /\ final_recommendation' = FinalChoice(recommendations, topic_results)
    /\ pc' = "chosen"
    /\ UNCHANGED <<num_documents, topic_results, analysis, recommendations,
                   listing, branch, error>>

\* The last two prints: num_documents / final_recommendation.
PrintFinal ==
    /\ pc = "chosen"
    /\ IF final_recommendation = 0
       THEN /\ error' = "ZeroDivisionError"
            /\ pc' = "failed"
       ELSE /\ pc' = "done"
            /\ UNCHANGED error
    /\ UNCHANGED <<num_documents, topic_results, analysis, recommendations,
                   listing, branch, final_recommendation>>

Next ==
    \/ Calculate
    \/ Analyze
    \/ Recommend
    \/ PrintRecommendations
    \/ PrintLiterature
    \/ ChooseFinal
    \/ PrintFinal

Spec == Init /\ [][Next]_vars

-----------------------------------------------------------------------------
(* Properties.                                                             *)

\* main() has gone past the call of calculate_optimal_topics, of
\* analyze_topic_distribution (successfully), of recommend_optimal_range,
\* and past the recommendation section.
Calculated == pc # "start"

Analyzed == analysis # << >>

Recommended == pc \in {"recommended", "listed", "compared", "chosen", "done"}
                  \/ (pc = "failed" /\ error = "KeyError")

Listed == branch # "none"

\* analyze_topic_distribution raised ZeroDivisionError.
AnalyzerFailed ==
    pc = "failed" /\ error = "ZeroDivisionError" /\ analysis = << >>

Abs(x) == IF x >= 0 THEN x ELSE -x

LargeCorpusKeys == {"large_corpus_low", "large_corpus_mid", "large_corpus_high"}

\* C1: for every document count, every topic count returned by
\* calculate_optimal_topics is a non-negative integer, and each of the keys
\* large_corpus_low / mid / high is present iff num_documents >= 100000.
C1_NonNegativeAndLargeCorpusKeys ==
    Calculated =>
        /\ \A i \in 1..Len(topic_results) : topic_results[i].topics \in Nat
        /\ \A key \in LargeCorpusKeys :
               key \in Keys(topic_results) <=> num_documents >= 100000

C1_Witness ==
    /\ pc = "calculated"
    /\ num_documents = 100000
    /\ LargeCorpusKeys \subseteq Keys(topic_results)

\* C2 as stated: for 103576 documents sqrt_rule = 321, ratio_100 = 1035,
\* griffiths_k10 = 115, blei_conservative = 100 and balanced = 465.
C2_Original ==
    (Calculated /\ num_documents = 103576) =>
        /\ Item(topic_results, "sqrt_rule").topics = 321
        /\ Item(topic_results, "ratio_100").topics = 1035
        /\ Item(topic_results, "griffiths_k10").topics = 115
        /\ Item(topic_results, "blei_conservative").topics = 100
        /\ Item(topic_results, "balanced").topics = 465

\* C2 (amended): for 103576 documents sqrt_rule = 321, ratio_100 = 1035,
\* griffiths_k10 = 115, blei_conservative = 100 and balanced = 482, the
\* integer part of sqrt(103576) * 1.5 = 482.7..., which lies within 50 .. 500.
C2_EndToEndValues ==
    (Calculated /\ num_documents = 103576) =>
        /\ Item(topic_results, "sqrt_rule").topics = 321
        /\ Item(topic_results, "ratio_100").topics = 1035
        /\ Item(topic_results, "griffiths_k10").topics = 115
        /\ Item(topic_results, "blei_conservative").topics = 100
        /\ Item(topic_results, "balanced").topics = 482
        /\ 4 * 482 * 482 <= 9 * 103576 /\ 9 * 103576 < 4 * 483 * 483

C2_Witness ==
    /\ pc = "calculated"
    /\ num_documents = 103576
    /\ Item(topic_results, "balanced").topics = 482

\* C3: the list returned by recommend_optimal_range holds exactly the
\* methods whose record has 50 <= topics <= 400 and a stored docs_per_topic
\* of 200.0 .. 1000.0, each once and with the record's values.
C3_ExactlyTheWindow ==
    Recommended =>
        /\ \A i \in 1..Len(recommendations) :
               /\ 50 <= recommendations[i].topics
               /\ recommendations[i].topics <= 400
               /\ 2000 <= recommendations[i].docs_per_topic
               /\ recommendations[i].docs_per_topic <= 10000
               /\ \E j \in 1..Len(analysis) :
                      /\ analysis[j].method = recommendations[i].method
                      /\ analysis[j].topics = recommendations[i].topics
                      /\ analysis[j].docs_per_topic
                             = recommendations[i].docs_per_topic
        /\ \A j \in 1..Len(analysis) :
               ( /\ 50 <= analysis[j].topics /\ analysis[j].topics <= 400
                 /\ 2000 <= analysis[j].docs_per_topic
                 /\ analysis[j].docs_per_topic <= 10000 )
               => analysis[j].method \in Keys(recommendations)
        /\ Cardinality(Keys(recommendations)) = Len(recommendations)

\* For 103576 documents five methods pass and eleven are left out.
C3_Witness ==
    /\ pc = "recommended"
    /\ num_documents = 103576
    /\ Len(recommendations) = 5
    /\ Len(analysis) = 16
    /\ "balanced" \notin Keys(recommendations)
    /\ "sqrt_rule" \in Keys(recommendations)

\* C4: the returned list is in non-decreasing order of the computed key
\* abs(docs_per_topic - 400), and two candidates of equal key stand in the
\* order of their methods in the analysis mapping; for 103576 documents
\* ratio_500 stands right before large_corpus_high, both 207 topics.
C4_SortedAndStable ==
    Recommended =>
        /\ \A i, j \in 1..Len(recommendations) :
               i < j =>
                   LET ki == SortKey(recommendations[i].docs_per_topic)
                       kj == SortKey(recommendations[j].docs_per_topic)
                   IN  /\ KeyLeq(ki, kj)
                       /\ ki = kj =>
                              Position(analysis, recommendations[i].method)
                                  < Position(analysis, recommendations[j].method)
        /\ num_documents = 103576 =>
               /\ recommendations[2].method = "ratio_500"
               /\ recommendations[3].method = "large_corpus_high"
               /\ recommendations[2].topics = 207
               /\ recommendations[3].topics = 207

C4_Witness ==
    /\ pc = "recommended"
    /\ num_documents = 103576
    /\ recommendations[2].method = "ratio_500"
    /\ recommendations[3].method = "large_corpus_high"
    /\ SortKey(recommendations[2].docs_per_topic)
           = SortKey(recommendations[3].docs_per_topic)

\* The acceptance test and the distance order on the full-precision
\* quotient num_documents / topics, by cross multiplication.
UnroundedInWindow(n, topics) ==
    /\ 50 <= topics /\ topics <= 400
    /\ 200 * topics <= n /\ n <= 1000 * topics

UnroundedDistanceLeq(n, t1, t2) ==
    Abs(n - 400 * t1) * t2 <= Abs(n - 400 * t2) * t1

\* C5: the returned list is the list obtained by filtering and ranking on
\* the full-precision quotient num_documents / topics: it holds exactly the
\* methods with 50 <= topics <= 400 and 200 <= num_documents / topics <= 1000,
\* in non-decreasing order of |num_documents / topics - 400|.
C5_FullPrecisionFilterAndRank ==
    Recommended =>
        /\ \A j \in 1..Len(analysis) :
               analysis[j].method \in Keys(recommendations)
                   <=> UnroundedInWindow(num_documents, analysis[j].topics)
        /\ \A i, j \in 1..Len(recommendations) :
               i < j => UnroundedDistanceLeq(num_documents,
                                             recommendations[i].topics,
                                             recommendations[j].topics)

\* C6 as stated: the fallback listing is printed iff the filtered list is
\* empty, it then holds min(3, number of methods) entries, and the run for 10
\* documents ends with the fallback reached and three entries listed.
C6_Original ==
    /\ Listed => (branch = "fallback" <=> recommendations = << >>)
    /\ branch = "fallback" => Len(listing) = Min(3, Len(analysis))
    /\ (num_documents = 10 /\ pc \in {"done", "failed"}) =>
           (branch = "fallback" /\ Len(listing) = 3)

\* C6 (amended): the fallback listing is printed iff the filtered list is
\* empty; it then holds the min(3, number of methods) entries of the whole
\* analysis that come first in the stable order by abs(docs_per_topic - 400).
\* For every document count in 500 .. 9999 (500 the first) no method passes
\* the filter, the fallback is reached and lists three entries; the run for
\* 10 documents never reaches the recommendation section: the analyzer
\* divides by zero (ratio_50 = 0).
C6_FallbackListing ==
    /\ Listed => (branch = "fallback" <=> recommendations = << >>)
    /\ branch = "fallback" =>
           /\ Len(listing) = Min(3, Len(analysis))
           /\ \A i \in 1..Len(listing) :
                  \E j \in 1..Len(analysis) :
                      /\ analysis[j].method = listing[i].method
                      /\ analysis[j].topics = listing[i].topics
                      /\ analysis[j].docs_per_topic = listing[i].docs_per_topic
           /\ \A i, j \in 1..Len(listing) :
                  i < j =>
                      LET ki == SortKey(listing[i].docs_per_topic)
                          kj == SortKey(listing[j].docs_per_topic)
                      IN  /\ KeyLeq(ki, kj)
                          /\ ki = kj =>
                                 Position(analysis, listing[i].method)
                                     < Position(analysis, listing[j].method)
           /\ \A j \in 1..Len(analysis) :
                  analysis[j].method \notin Keys(listing) =>
                      LET kl == SortKey(listing[Len(listing)].docs_per_topic)
                          kj == SortKey(analysis[j].docs_per_topic)
                      IN  /\ KeyLeq(kl, kj)
                          /\ kl = kj =>
                                 Position(analysis, listing[Len(listing)].method)
                                     < j
    /\ (num_documents \in 500..9999 /\ Recommended) => recommendations = << >>
    /\ (num_documents \in 500..9999 /\ Listed) =>
           (branch = "fallback" /\ Len(listing) = 3)
    /\ num_documents = 10 =>
           /\ ~Listed
           /\ pc \notin {"start", "calculated"} => AnalyzerFailed

C6_Witness ==
    /\ pc = "listed"
    /\ num_documents = 500
    /\ recommendations = << >>
    /\ branch = "fallback"
    /\ Len(listing) = 3
    /\ listing[1].method = "ratio_500"

\* C7: analyze_topic_distribution fails with a division by zero, returning
\* no analysis mapping, exactly when some method has 0 topics; on the output
\* of calculate_optimal_topics that is every document count from 1 to 499
\* (ratio_500 = 0) and none from 500 up.
C7_DivisionByZeroBelow500 ==
    pc \notin {"start", "calculated"} =>
        /\ AnalyzerFailed
               <=> \E i \in 1..Len(topic_results) : topic_results[i].topics = 0
        /\ AnalyzerFailed <=> num_documents <= 499
        /\ num_documents <= 499 => Item(topic_results, "ratio_500").topics = 0
        /\ ~AnalyzerFailed =>
               /\ Len(analysis) = Len(topic_results)
               /\ \A i \in 1..Len(analysis) :
                      /\ analysis[i].method = topic_results[i].method
                      /\ analysis[i].topics = topic_results[i].topics

C7_Witness ==
    /\ num_documents = 499
    /\ AnalyzerFailed
    /\ Item(topic_results, "ratio_500").topics = 0
    /\ \A i \in 1..Len(topic_results) :
           topic_results[i].method # "ratio_500" => topic_results[i].topics > 0

\* C8: final_recommendation is the topic count of the head of the filtered
\* list (the entry printed first, as the single best recommendation) when
\* that list is non-empty; otherwise it is ratio_100 if ratio_100 <= 400 and
\* min(300, balanced) if not.  It never exceeds 400, and for 103576 documents
\* it is 321, the sqrt_rule count at the head of the filtered list.
C8_FinalRecommendation ==
    pc \in {"chosen", "done"} =>
        /\ recommendations # << >> =>
               /\ final_recommendation = recommendations[1].topics
               /\ branch = "best"
               /\ final_recommendation = listing[1].topics
        /\ recommendations = << >> =>
               LET r100 == Item(topic_results, "ratio_100").topics
                   bal  == Item(topic_results, "balanced").topics
               IN  final_recommendation
                       = IF r100 <= 400 THEN r100 ELSE Min(300, bal)
        /\ final_recommendation <= 400
        /\ num_documents = 103576 =>
               /\ final_recommendation = 321
               /\ recommendations[1].method = "sqrt_rule"

C8_Witness ==
    /\ pc = "done"
    /\ num_documents = 103576
    /\ final_recommendation = 321
    /\ branch = "best"

\* The fallback chain is reached too (300750 documents: no candidate,
\* ratio_100 = 3007, balanced = 500, final recommendation 300).
C8_FallbackChainReached ==
    /\ pc = "done"
    /\ recommendations = << >>
    /\ final_recommendation = 300

\* The granularity label the stored (rounded) docs_per_topic would get.
LabelOfStored(tenths) ==
    IF tenths <= 2000 THEN "High"
    ELSE IF tenths <= 5000 THEN "Medium" ELSE "Low"

DriverKeys ==
    {"griffiths_k10", "blei_conservative", "large_corpus_mid", "ratio_100",
     "balanced"}

\* C10: the run for 103576 documents never fails on its way to its last
\* step: no topic count is 0, the final recommendation is not 0, and every
\* name main() looks up is a key of topic_results.  For
\* fewer than 100000 documents large_corpus_mid is no key, and a run that
\* gets to the literature section ends there with KeyError.
C10_DriverRunCompletes ==
    /\ num_documents = 103576 =>
           /\ pc # "failed" /\ error = "none"
           /\ Calculated =>
                  /\ \A i \in 1..Len(topic_results) : topic_results[i].topics > 0
                  /\ DriverKeys \subseteq Keys(topic_results)
           /\ pc \in {"chosen", "done"} => final_recommendation # 0
    /\ (num_documents < 100000 /\ Calculated) =>
           /\ "large_corpus_mid" \notin Keys(topic_results)
           /\ pc \notin {"compared", "chosen", "done"}
           /\ Listed => (pc = "listed" \/ (pc = "failed" /\ error = "KeyError"))

C10_Witness ==
    /\ pc = "done"
    /\ num_documents = 103576
    /\ error = "none"
    /\ final_recommendation = 321

\* A run for fewer than 100000 documents that ends in the literature section.
C10_KeyErrorReached ==
    /\ pc = "failed"
    /\ error = "KeyError"
    /\ num_documents = 99999

=============================================================================
